---- MODULE Spec2Model ----
(***************************************************************************)
(* The Polymers rewards program (Anchor/Solana): the reward vault, the     *)
(* multi-sig approval counter, batch minting of PLY/CARB/EWASTE tokens and *)
(* ESG NFT minting, as written in programs/src (lib.rs, state.rs,          *)
(* errors.rs, instructions/*.rs).                                          *)
(*                                                                         *)
(* An instruction is one transaction: when the handler returns Err or      *)
(* panics, the runtime discards every account write it made, the token     *)
(* program's writes included.  The handlers below compute the working      *)
(* state statement by statement; TxCommit decides what is kept.            *)
(***************************************************************************)
EXTENDS Integers, Sequences, FiniteSets, TLC

VARIABLES
    vault,      \* the RewardVault account, or NoVault before initialize
    balances,   \* token account -> amount held
    events,     \* EsgNftMinted events emitted so far, in order
    ret,        \* the instruction last executed and its result
    reward0,    \* history: the reward_amount given to initialize
    processed,  \* history: sum of the amounts of the deposits minted
    nmints,     \* history: number of successful mint_batch_rewards
    probe       \* what is evaluated on its own: the arguments and result of
                \* a pure function, or the state of the off-chain API

vars == <<vault, balances, events, ret, reward0, processed, nmints, probe>>

----------------------------------------------------------------------------
(* Bounds of the exploration *)

MaxBatch == 2      \* deposits per batch
MaxMints == 1      \* successful batch mints per run
MaxNfts  == 1      \* NFT mints per run
MaxApprovals == 2  \* approvals the admins of a run give before a mint

----------------------------------------------------------------------------
(* u64 arithmetic.  A u64 is kept as four limbs in base 10^6, most          *)
(* significant first, so that values up to 2^64 - 1 can be written.         *)

LIMB == 10^6

U64_MAX == <<18, 446744, 73709, 551615>>

U64(n) == <<0, 0, n \div LIMB, n % LIMB>>

\* lexicographic a <= b on limb tuples
LimbsLeq(a, b) ==
    \/ a[1] < b[1]
    \/ a[1] = b[1] /\ a[2] < b[2]
    \/ a[1] = b[1] /\ a[2] = b[2] /\ a[3] < b[3]
    \/ a[1] = b[1] /\ a[2] = b[2] /\ a[3] = b[3] /\ a[4] <= b[4]

\* the mathematical sum a + n of a limb tuple and a natural n < 2^30
LimbsAdd(a, n) ==
    LET s4 == a[4] + n
        s3 == a[3] + (s4 \div LIMB)
        s2 == a[2] + (s3 \div LIMB)
        s1 == a[1] + (s2 \div LIMB)
    IN  <<s1, s2 % LIMB, s3 % LIMB, s4 % LIMB>>

None == <<>>

\* u64::checked_add: None when the sum does not fit 64 bits
checked_add(a, n) ==
    IF LimbsLeq(LimbsAdd(a, n), U64_MAX) THEN LimbsAdd(a, n) ELSE None

----------------------------------------------------------------------------
(* Identities and token accounts *)

Signers == {"admin", "outsider"}

\* who creates the vault
Deployers == {"admin"}

\* each token account holds tokens of exactly one mint
AccountMint ==
    [u1_ply |-> "ply", u1_carb |-> "carb", u1_ewaste |-> "ewaste",
     u2_ply |-> "ply", u2_carb |-> "carb", u2_ewaste |-> "ewaste",
     u1_nft |-> "nft"]

TokenAccounts == DOMAIN AccountMint

VAULT_BUMP == 255

NoVault == [exists |-> FALSE]

----------------------------------------------------------------------------
(* BatchDeposit and EsgMetrics (state.rs).  The f64 fields (multipliers and *)
(* ESG weights) are kept in tenths: ply_multiplier = 10 is the f64 1.0.     *)

\* the tenant policy fields of a deposit
Policy(ct, tmin, tmax, hmin, hmax, vmax, fmax) ==
    [contamination_threshold |-> ct, min_temperature |-> tmin,
     max_temperature |-> tmax, min_humidity |-> hmin, max_humidity |-> hmax,
     max_vibration |-> vmax, max_fill_level |-> fmax]

WidePolicy == Policy(3000, 0 - 500, 3500, 1000, 8000, 6000, 9500)

EsgMetrics(co, rec) == [carbon_offset |-> co, recyclability |-> rec]

BatchDeposit(user, amount, c, t, h, v, f, esg, pol, km, cw, rw) ==
    [user_ply |-> user[1], user_carb |-> user[2], user_ewaste |-> user[3],
     amount |-> amount, contamination |-> c, temperature |-> t,
     humidity |-> h, vibration |-> v, fill_level |-> f,
     ply_multiplier |-> km, carb_multiplier |-> km, ewaste_multiplier |-> km,
     contamination_threshold |-> pol.contamination_threshold,
     min_temperature |-> pol.min_temperature,
     max_temperature |-> pol.max_temperature,
     min_humidity |-> pol.min_humidity, max_humidity |-> pol.max_humidity,
     max_vibration |-> pol.max_vibration,
     max_fill_level |-> pol.max_fill_level,
     esg_metrics |-> esg,
     esg_carbon_weight |-> cw, esg_recyclability_weight |-> rw]

User1 == <<"u1_ply", "u1_carb", "u1_ewaste">>
User2 == <<"u2_ply", "u2_carb", "u2_ewaste">>

----------------------------------------------------------------------------
(* Validation: the two require! at the head of the mint_batch_rewards loop  *)

AmountOk(d) == d.amount > 0 /\ d.amount <= 1000000

\* variant: the contamination bound left out of the telemetry check
TelemetryOk_nocontamination(d) ==
    /\ d.temperature >= d.min_temperature
    /\ d.temperature <= d.max_temperature
    /\ d.humidity >= d.min_humidity
    /\ d.humidity <= d.max_humidity
    /\ d.vibration <= d.max_vibration
    /\ d.fill_level <= d.max_fill_level
    /\ d.esg_metrics.carbon_offset > 0
    /\ d.esg_metrics.recyclability <= 10000

TelemetryOk(d) ==
    /\ d.contamination <= d.contamination_threshold
    /\ d.temperature >= d.min_temperature
    /\ d.temperature <= d.max_temperature
    /\ d.humidity >= d.min_humidity
    /\ d.humidity <= d.max_humidity
    /\ d.vibration <= d.max_vibration
    /\ d.fill_level <= d.max_fill_level
    /\ d.esg_metrics.carbon_offset > 0
    /\ d.esg_metrics.recyclability <= 10000

\* variant: the upper amount bound taken exclusive
validate_deposit_strict(d) ==
    IF ~(d.amount > 0 /\ d.amount < 1000000) THEN "InvalidAmount"
    ELSE IF ~TelemetryOk(d) THEN "InvalidTelemetry"
    ELSE "Ok"

\* the error the loop head raises for d, or "Ok"
validate_deposit(d) ==
    IF ~AmountOk(d) THEN "InvalidAmount"
    ELSE IF ~TelemetryOk(d) THEN "InvalidTelemetry"
    ELSE "Ok"

\* the validator with bitwise flags: bit 0 for the amount, bit 1 for the
\* contamination, a further bit of the u8 for each of the other checks of
\* the loop head (the bits are distinct, so |= adds them)
validate_telemetry(deposit) ==
    LET bit(ok, k) == IF ok THEN 0 ELSE 2 ^ k
        flags ==
            bit(deposit.amount > 0 /\ deposit.amount <= 1000000, 0)
          + bit(deposit.contamination <= deposit.contamination_threshold, 1)
          + bit(deposit.temperature >= deposit.min_temperature
                  /\ deposit.temperature <= deposit.max_temperature, 2)
          + bit(deposit.humidity >= deposit.min_humidity
                  /\ deposit.humidity <= deposit.max_humidity, 3)
          + bit(deposit.vibration <= deposit.max_vibration, 4)
          + bit(deposit.fill_level <= deposit.max_fill_level, 5)
          + bit(deposit.esg_metrics.carbon_offset > 0
                  /\ deposit.esg_metrics.recyclability <= 10000, 6)
    IN  IF flags = 0 THEN "Ok"
        ELSE IF flags = 1 THEN "InvalidAmount"
        ELSE "InvalidTelemetry"

----------------------------------------------------------------------------
(* calculate_compliance_score.  The score is an f64 sum of six sub-scores   *)
(* that are multiples of 0.1.  An f64 is written <<k, u>>: the double u     *)
(* units in the last place away from the double nearest to k/10.  F64Sum    *)
(* lists the IEEE-754 round-to-nearest results of the additions the         *)
(* function can perform (left to right, c + t + h + v + f + esg).           *)

F64Sum ==
    {<<<<0,0>>,1,<<1,0>>>>,   <<<<0,0>>,3,<<3,0>>>>,   <<<<1,0>>,1,<<2,0>>>>,
     <<<<1,0>>,2,<<3,1>>>>,   <<<<2,0>>,0,<<2,0>>>>,   <<<<2,0>>,1,<<3,1>>>>,
     <<<<2,0>>,2,<<4,0>>>>,   <<<<2,0>>,3,<<5,0>>>>,   <<<<3,0>>,1,<<4,0>>>>,
     <<<<3,0>>,2,<<5,0>>>>,   <<<<3,1>>,0,<<3,1>>>>,   <<<<3,1>>,1,<<4,0>>>>,
     <<<<3,1>>,2,<<5,0>>>>,   <<<<4,0>>,0,<<4,0>>>>,   <<<<4,0>>,1,<<5,0>>>>,
     <<<<4,0>>,2,<<6,1>>>>,   <<<<4,0>>,3,<<7,0>>>>,   <<<<5,0>>,0,<<5,0>>>>,
     <<<<5,0>>,1,<<6,0>>>>,   <<<<5,0>>,2,<<7,0>>>>,   <<<<6,0>>,0,<<6,0>>>>,
     <<<<6,0>>,1,<<7,0>>>>,   <<<<6,0>>,2,<<8,0>>>>,   <<<<6,1>>,1,<<7,1>>>>,
     <<<<6,1>>,2,<<8,0>>>>,   <<<<7,0>>,0,<<7,0>>>>,   <<<<7,0>>,1,<<8,0-1>>>>,
     <<<<7,0>>,2,<<9,0-1>>>>, <<<<8,0-1>>,0,<<8,0-1>>>>, <<<<8,0-1>>,1,<<9,0-1>>>>,
     <<<<8,0-1>>,2,<<10,0>>>>, <<<<8,0>>,1,<<9,0>>>>,  <<<<8,0>>,2,<<10,0>>>>,
     <<<<9,0-1>>,0,<<9,0-1>>>>, <<<<9,0-1>>,1,<<10,0-1>>>>, <<<<9,0-1>>,2,<<11,0-1>>>>,
     <<<<10,0-1>>,1,<<11,0-1>>>>, <<<<10,0-1>>,2,<<12,0>>>>, <<<<10,0>>,1,<<11,0>>>>,
     <<<<10,0>>,2,<<12,0>>>>, <<<<11,0-1>>,1,<<12,0>>>>, <<<<11,0-1>>,2,<<13,0-1>>>>,
     <<<<12,0>>,1,<<13,0>>>>, <<<<12,0>>,2,<<14,0>>>>}

\* x + a in f64, a a multiple of 0.1 given in tenths
F64Add(x, a) == (CHOOSE e \in F64Sum : e[1] = x /\ e[2] = a)[3]

\* x >= k/10 in f64
F64Geq(x, k) == x[1] > k \/ (x[1] = k /\ x[2] >= 0)

\* x <= k/10 in f64
F64Leq(x, k) == x[1] < k \/ (x[1] = k /\ x[2] <= 0)

calculate_compliance_score(contamination, temperature, humidity, vibration, fill_level, esg) ==
    LET c_score == IF contamination < 1000 THEN 4
                   ELSE IF contamination < 2000 THEN 2 ELSE 0
        t_score == IF temperature >= 1000 /\ temperature <= 3000 THEN 3 ELSE 1
        h_score == IF humidity >= 4000 /\ humidity <= 7000 THEN 2 ELSE 1
        v_score == IF vibration < 5000 THEN 1 ELSE 0
        f_score == IF fill_level < 9000 THEN 2 ELSE 1
        esg_score == IF esg.recyclability > 9000 THEN 2 ELSE 1
    IN  F64Add(F64Add(F64Add(F64Add(F64Add(<<c_score, 0>>, t_score),
                h_score), v_score), f_score), esg_score)

\* the score of a deposit, as the loop body calls the function
Compliance(d) ==
    calculate_compliance_score(d.contamination, d.temperature, d.humidity,
                               d.vibration, d.fill_level, d.esg_metrics)

----------------------------------------------------------------------------
(* Reward quantities (mint_batch_rewards, the lines after the score)        *)

\* the tier multiplier, in tenths
tier_multiplier(compliance) ==
    IF F64Geq(compliance, 8) THEN 10
    ELSE IF F64Geq(compliance, 5) THEN 7 ELSE 4

\* carbon_offset * esg_carbon_weight + recyclability * weight, in tenths
esg_multiplier(d) ==
    d.esg_metrics.carbon_offset * d.esg_carbon_weight
        + d.esg_metrics.recyclability * d.esg_recyclability_weight

\* ((amount * rate * multiplier * k_multiplier * esg_multiplier)
\*    * 1_000_000.0) as u64, the three f64 factors being given in tenths;
\* the cast sends a negative product to 0
token_quantity(amount, rate, multiplier, k_multiplier, esg_mult) ==
    LET p == amount * rate * multiplier * k_multiplier * esg_mult * 1000
    IN  IF p < 0 THEN 0 ELSE p

----------------------------------------------------------------------------
(* u64 multiplication.  The `*` of Rust on u64 panics on overflow in a      *)
(* build with overflow checks and wraps modulo 2^64 in a build without      *)
(* them; build is "checked" or "wrapping".                                  *)

TWO_64 == <<18, 446744, 73709, 551616>>

Builds == {"checked", "wrapping"}

\* a + b on limb tuples of one length (the sum must fit the length)
LimbsSum(a, b) ==
    LET L == Len(a)
        RECURSIVE carry(_)
        carry(i) == IF i = L THEN 0
                    ELSE (a[i + 1] + b[i + 1] + carry(i + 1)) \div LIMB
    IN  [i \in 1..L |-> (a[i] + b[i] + carry(i)) % LIMB]

\* a - b on limb tuples of one length, for a >= b
LimbsDiff(a, b) ==
    LET L == Len(a)
        RECURSIVE borrow(_)
        borrow(i) == IF i = L THEN 0
                     ELSE IF a[i + 1] - b[i + 1] - borrow(i + 1) < 0 THEN 1
                     ELSE 0
    IN  [i \in 1..L |-> (a[i] - b[i] - borrow(i) + LIMB) % LIMB]

\* a * n on a limb tuple, for 0 <= n <= 2000 (the product must fit)
LimbsScale(a, n) ==
    LET L == Len(a)
        RECURSIVE carry(_)
        carry(i) == IF i = L THEN 0
                    ELSE (a[i + 1] * n + carry(i + 1)) \div LIMB
    IN  [i \in 1..L |-> (a[i] * n + carry(i)) % LIMB]

\* the mathematical product a * n of a u64 and a natural n <= 2000999, on
\* six limbs
LimbsTimes(a, n) ==
    LET w == <<0, 0>> \o a
    IN  LimbsSum(LimbsScale(LimbsScale(w, n \div 1000), 1000),
                 LimbsScale(w, n % 1000))

\* a <= b for limb tuples of one length
LimbsLe(a, b) ==
    \/ a = b
    \/ \E i \in 1..Len(a) :
          /\ a[i] < b[i]
          /\ \A j \in 1..(i - 1) : a[j] = b[j]

\* u64::wrapping_add
wrapping_add(a, b) ==
    LET sum == LimbsSum(a, b)
    IN  IF LimbsLe(sum, U64_MAX) THEN sum ELSE LimbsDiff(sum, TWO_64)

RECURSIVE wrapping_mul(_, _)
\* u64::wrapping_mul: a * n modulo 2^64, by doubling from the top bit of n
wrapping_mul(a, n) ==
    IF n = 0 THEN U64(0)
    ELSE CHOOSE r \in {IF n % 2 = 1 THEN wrapping_add(wrapping_add(h, h), a)
                                     ELSE wrapping_add(h, h) :
                             h \in {wrapping_mul(a, n \div 2)}} : TRUE

\* a * n as the build evaluates it: None stands for the overflow panic
u64_mul(build, a, n) ==
    IF a = None THEN None
    ELSE IF LimbsLe(LimbsTimes(a, n), <<0, 0>> \o U64_MAX)
    THEN SubSeq(LimbsTimes(a, n), 3, 6)
    ELSE IF build = "checked" THEN None ELSE wrapping_mul(a, n)

----------------------------------------------------------------------------
(* calculate_rewards, the fixed-point reward calculation                    *)

SCALE == 1000000

\* the deposit fields the calculation reads; the multipliers are u64
RewardDeposit(amount, pm, cm, em) ==
    [amount |-> amount, ply_multiplier |-> pm, carb_multiplier |-> cm,
     ewaste_multiplier |-> em]

\* (amount * rate * SCALE * multiplier * compliance_score) / (SCALE * SCALE),
\* multiplied left to right; SCALE * SCALE is two limbs
reward_quantity(build, amount, rate, multiplier, compliance_score) ==
    LET p == CHOOSE p4 \in
                 {u64_mul(build, p3, compliance_score) :
                    p3 \in {u64_mul(build, p2, multiplier) :
                       p2 \in {u64_mul(build, p1, SCALE) :
                          p1 \in {u64_mul(build, U64(amount), rate)}}}} : TRUE
    IN  IF p = None THEN None ELSE <<0, 0, p[1], p[2]>>

calculate_rewards(build, deposit, compliance_score) ==
    LET ply    == reward_quantity(build, deposit.amount, 10,
                                  deposit.ply_multiplier, compliance_score)
        carb   == reward_quantity(build, deposit.amount, 5,
                                  deposit.carb_multiplier, compliance_score)
        ewaste == reward_quantity(build, deposit.amount, 2,
                                  deposit.ewaste_multiplier, compliance_score)
    IN  IF ply = None \/ carb = None \/ ewaste = None
        THEN [res |-> "Panic", ply |-> U64(0), carb |-> U64(0),
              ewaste |-> U64(0)]
        ELSE [res |-> "Ok", ply |-> ply, carb |-> carb, ewaste |-> ewaste]

----------------------------------------------------------------------------
(* emit_wormhole_message.  A byte array is a sequence of bytes: the byte at *)
(* offset k of the array is element k + 1 of the sequence.                  *)

\* the quotient of a limb tuple by n, for 0 < n <= 2000
LimbsQuot(a, n) ==
    LET RECURSIVE rem(_)
        rem(i) == IF i = 0 THEN 0 ELSE (rem(i - 1) * LIMB + a[i]) % n
    IN  [i \in 1..Len(a) |-> (rem(i - 1) * LIMB + a[i]) \div n]

\* the remainder of a limb tuple by n, for 0 < n <= 2000
LimbsRem(a, n) ==
    LET RECURSIVE rem(_)
        rem(i) == IF i = 0 THEN 0 ELSE (rem(i - 1) * LIMB + a[i]) % n
    IN  rem(Len(a))

RECURSIVE le_bytes(_, _)
\* the k low bytes of a, least significant first
le_bytes(a, k) ==
    IF k = 0 THEN <<>>
    ELSE <<LimbsRem(a, 256)>> \o le_bytes(LimbsQuot(a, 256), k - 1)

\* variant: the bytes most significant first
to_be_bytes(a) ==
    LET le == le_bytes(a, 8) IN [i \in 1..8 |-> le[9 - i]]

\* u64::to_le_bytes
to_le_bytes(a) == le_bytes(a, 8)

\* dst[lo..hi].copy_from_slice(src), which panics unless src has hi - lo
\* elements
copy_from_slice(dst, lo, hi, src) ==
    IF dst = None \/ Len(src) # hi - lo THEN None
    ELSE [i \in 1..Len(dst) |->
             IF lo < i /\ i <= hi THEN src[i - lo] ELSE dst[i]]

\* variant: the compliance score appended as a further 8-byte field
emit_wormhole_message_90(nft_mint, target_chain, recipient, esg_metrics, compliance_score, cpi_ok) ==
    LET p0 == [i \in 1..90 |-> 0]
        p1 == copy_from_slice(p0, 0, 2, <<0, 1>>)
        p2 == copy_from_slice(p1, 2, 34, nft_mint)
        p3 == copy_from_slice(p2, 34, 66, recipient)
        p4 == copy_from_slice(p3, 66, 74,
                              to_le_bytes(esg_metrics.carbon_offset))
        p5 == copy_from_slice(p4, 74, 82,
                              to_le_bytes(esg_metrics.recyclability))
        payload == copy_from_slice(p5, 82, 90, to_le_bytes(compliance_score))
    IN  IF payload = None THEN [res |-> "Panic", published |-> None]
        ELSE IF ~cpi_ok THEN [res |-> "Err", published |-> None]
        ELSE [res |-> "Ok", published |-> payload]

\* cpi_ok: whether wormhole::cpi::publish_message returns Ok
emit_wormhole_message(nft_mint, target_chain, recipient, esg_metrics, compliance_score, cpi_ok) ==
    LET p0 == [i \in 1..82 |-> 0]
        p1 == copy_from_slice(p0, 0, 2, <<0, 1>>)
        p2 == copy_from_slice(p1, 2, 34, nft_mint)
        p3 == copy_from_slice(p2, 34, 66, recipient)
        p4 == copy_from_slice(p3, 66, 74,
                              to_le_bytes(esg_metrics.carbon_offset))
        payload == copy_from_slice(p4, 74, 82,
                                   to_le_bytes(esg_metrics.recyclability))
    IN  IF payload = None THEN [res |-> "Panic", published |-> None]
        ELSE IF ~cpi_ok THEN [res |-> "Err", published |-> None]
        ELSE [res |-> "Ok", published |-> payload]

----------------------------------------------------------------------------
(* The token program's MintTo, as far as the handlers depend on it: the     *)
(* destination must be a token account of the mint.                         *)

mint_to(bal, mint, to, amount) ==
    IF AccountMint[to] = mint
    THEN [ok |-> TRUE,  balances |-> [bal EXCEPT ![to] = @ + amount]]
    ELSE [ok |-> FALSE, balances |-> bal]

----------------------------------------------------------------------------
(* mint_batch_rewards.  st is the handler's working state                   *)
(* [res, at, vault, balances]: res = "Running" while the loop goes on, at   *)
(* is the index of the deposit the loop stopped at (or -1).                 *)

\* variant: the amount assigned instead of accumulated
add_amount_assign(vault_amount, deposit_amount) == U64(deposit_amount)

\* vault.amount.checked_add(deposit.amount)
add_amount(vault_amount, deposit_amount) ==
    checked_add(vault_amount, deposit_amount)

\* one iteration of the loop, for the deposit d at index i (from 0)
process_deposit(st, d, i, accounts) ==
    IF validate_deposit(d) # "Ok"
    THEN [st EXCEPT !.res = validate_deposit(d), !.at = i]
    ELSE
    LET compliance == Compliance(d)
        multiplier == tier_multiplier(compliance)
        esg_mult   == esg_multiplier(d)
        ply_tokens    == token_quantity(d.amount, 10, multiplier,
                                        d.ply_multiplier, esg_mult)
        carb_tokens   == token_quantity(d.amount, 5, multiplier,
                                        d.carb_multiplier, esg_mult)
        ewaste_tokens == token_quantity(d.amount, 2, multiplier,
                                        d.ewaste_multiplier, esg_mult)
    IN  IF Len(accounts) < i * 3 + 3
        THEN [st EXCEPT !.res = "Panic", !.at = i]   \* index out of bounds
        ELSE
        LET m1 == mint_to(st.balances, "ply", accounts[i * 3 + 1], ply_tokens)
            m2 == mint_to(m1.balances, "carb", accounts[i * 3 + 2],
                          carb_tokens)
            m3 == mint_to(m2.balances, "ewaste", accounts[i * 3 + 3],
                          ewaste_tokens)
            sum == add_amount(st.vault.amount, d.amount)
        IN  IF ~m1.ok THEN [st EXCEPT !.res = "TokenError", !.at = i]
            ELSE IF ~m2.ok
            THEN [st EXCEPT !.res = "TokenError", !.at = i,
                            !.balances = m1.balances]
            ELSE IF ~m3.ok
            THEN [st EXCEPT !.res = "TokenError", !.at = i,
                            !.balances = m2.balances]
            ELSE IF sum = None                  \* unwrap of None
            THEN [st EXCEPT !.res = "Panic", !.at = i,
                            !.balances = m3.balances]
            ELSE [st EXCEPT !.balances = m3.balances, !.vault.amount = sum]

\* variant: a deposit that fails validation is skipped, the loop goes on
RECURSIVE batch_loop_skip(_, _, _, _)
batch_loop_skip(st, deposits, accounts, i) ==
    IF i = Len(deposits)
    THEN [st EXCEPT !.vault.admin_approvals = 0, !.res = "Ok"]
    ELSE LET s2 == process_deposit(st, deposits[i + 1], i, accounts)
         IN  IF s2.res \in {"InvalidAmount", "InvalidTelemetry"}
             THEN batch_loop_skip(st, deposits, accounts, i + 1)
             ELSE IF s2.res # "Running" THEN s2
             ELSE batch_loop_skip(s2, deposits, accounts, i + 1)

\* variant: the approval counter is not reset after the loop
RECURSIVE batch_loop_noreset(_, _, _, _)
batch_loop_noreset(st, deposits, accounts, i) ==
    IF i = Len(deposits)
    THEN [st EXCEPT !.res = "Ok"]
    ELSE LET s2 == process_deposit(st, deposits[i + 1], i, accounts)
         IN  IF s2.res # "Running" THEN s2
             ELSE batch_loop_noreset(s2, deposits, accounts, i + 1)

\* variant: the deposits taken from the last to the first
RECURSIVE batch_loop_reverse(_, _, _, _)
batch_loop_reverse(st, deposits, accounts, i) ==
    IF i = Len(deposits)
    THEN [st EXCEPT !.vault.admin_approvals = 0, !.res = "Ok"]
    ELSE LET j == Len(deposits) - 1 - i
             s2 == process_deposit(st, deposits[j + 1], j, accounts)
         IN  IF s2.res # "Running" THEN s2
             ELSE batch_loop_reverse(s2, deposits, accounts, i + 1)

\* variant: every deposit minted to the first three handles
RECURSIVE batch_loop_first(_, _, _, _)
batch_loop_first(st, deposits, accounts, i) ==
    IF i = Len(deposits)
    THEN [st EXCEPT !.vault.admin_approvals = 0, !.res = "Ok"]
    ELSE LET s2 == process_deposit(st, deposits[i + 1], 0, accounts)
         IN  IF s2.res # "Running" THEN s2
             ELSE batch_loop_first(s2, deposits, accounts, i + 1)

RECURSIVE batch_loop(_, _, _, _)
batch_loop(st, deposits, accounts, i) ==
    IF i = Len(deposits)
    THEN [st EXCEPT !.vault.admin_approvals = 0, !.res = "Ok"]
    ELSE LET s2 == process_deposit(st, deposits[i + 1], i, accounts)
         IN  IF s2.res # "Running" THEN s2
             ELSE batch_loop(s2, deposits, accounts, i + 1)

\* variant: the gate opened by a single approval
mint_batch_rewards_gate1(v, bal, deposits, accounts) ==
    IF ~v.exists
    THEN [res |-> "AccountNotInitialized", at |-> 0 - 1, vault |-> v,
          balances |-> bal]
    ELSE IF ~(v.admin_approvals >= 1)
    THEN [res |-> "InsufficientApprovals", at |-> 0 - 1, vault |-> v,
          balances |-> bal]
    ELSE batch_loop([res |-> "Running", at |-> 0 - 1, vault |-> v,
                     balances |-> bal], deposits, accounts, 0)

mint_batch_rewards(v, bal, deposits, accounts) ==
    IF ~v.exists
    THEN [res |-> "AccountNotInitialized", at |-> 0 - 1, vault |-> v,
          balances |-> bal]
    ELSE IF ~(v.admin_approvals >= 2)
    THEN [res |-> "InsufficientApprovals", at |-> 0 - 1, vault |-> v,
          balances |-> bal]
    ELSE batch_loop([res |-> "Running", at |-> 0 - 1, vault |-> v,
                     balances |-> bal], deposits, accounts, 0)

----------------------------------------------------------------------------
(* mint_esg_nft *)

EsgNftMinted(deposit_id, esg_metrics) ==
    [deposit_id |-> deposit_id,
     carbon_offset |-> esg_metrics.carbon_offset,
     recyclability |-> esg_metrics.recyclability]

\* variant: the recyclability bound is not checked
mint_esg_nft_anyrecyclability(bal, evs, deposit_id, esg_metrics, user_nft_account) ==
    IF ~(esg_metrics.carbon_offset > 0)
    THEN [res |-> "InvalidEsgMetrics", balances |-> bal, events |-> evs]
    ELSE LET m == mint_to(bal, "nft", user_nft_account, 1)
         IN  IF ~m.ok
             THEN [res |-> "TokenError", balances |-> bal, events |-> evs]
             ELSE [res |-> "Ok", balances |-> m.balances,
                   events |-> Append(evs,
                                 EsgNftMinted(deposit_id, esg_metrics))]

mint_esg_nft(bal, evs, deposit_id, esg_metrics, user_nft_account) ==
    IF ~(esg_metrics.carbon_offset > 0 /\ esg_metrics.recyclability <= 10000)
    THEN [res |-> "InvalidEsgMetrics", balances |-> bal, events |-> evs]
    ELSE LET m == mint_to(bal, "nft", user_nft_account, 1)
         IN  IF ~m.ok
             THEN [res |-> "TokenError", balances |-> bal, events |-> evs]
             ELSE [res |-> "Ok", balances |-> m.balances,
                   events |-> Append(evs,
                                 EsgNftMinted(deposit_id, esg_metrics))]

----------------------------------------------------------------------------
(* initialize and approve_mint *)

initialize(authority, reward_amount) ==
    [exists |-> TRUE, authority |-> authority, amount |-> reward_amount,
     bump |-> VAULT_BUMP, admin_approvals |-> 0]

\* variant: an approval counts twice
approve_mint_twice(v) ==
    {[res |-> "Ok", vault |-> [v EXCEPT !.admin_approvals = (@ + 2) % 256]]}

\* variant: an approval also clears the running amount
approve_mint_clear(v) ==
    {[res |-> "Ok",
      vault |-> [v EXCEPT !.admin_approvals = (@ + 1) % 256,
                          !.amount = U64(0)]]}

\* vault.admin_approvals += 1 on a u8.  At 255 the addition overflows: a
\* build with overflow checks panics, a build without them wraps to 0.
approve_mint(v) ==
    IF v.admin_approvals < 255
    THEN {[res |-> "Ok",
           vault |-> [v EXCEPT !.admin_approvals = @ + 1]]}
    ELSE {[res |-> "Panic", vault |-> v],
          [res |-> "Ok", vault |-> [v EXCEPT !.admin_approvals = 0]]}

\* what a transaction leaves behind: the handler's writes when it returned
\* Ok, the state before the call otherwise
TxCommit(res, pre, post) == IF res = "Ok" THEN post ELSE pre

----------------------------------------------------------------------------
(* Inputs of the program runs *)

\* a deposit that passes validation and scores 1.4 (multiplier 1.0)
DepositA ==
    BatchDeposit(User1, 1, 5, 2500, 5000, 100, 5000, EsgMetrics(5, 9500),
                 WidePolicy, 10, 10, 0)

\* a deposit that passes validation and scores 0.4 (multiplier 0.4)
DepositB ==
    BatchDeposit(User2, 2, 2500, 3200, 7500, 5500, 9200, EsgMetrics(3, 8000),
                 WidePolicy, 10, 10, 0)

\* DepositA with an amount above the bound
DepositX == [DepositA EXCEPT !.amount = 2000000]

\* DepositA with a zero carbon offset
DepositE == [DepositA EXCEPT !.esg_metrics.carbon_offset = 0]

\* DepositA with a recyclability above 10000
DepositR == [DepositA EXCEPT !.esg_metrics.recyclability = 10001]

\* the deposits the off-chain service knows by deposit_id
DepositOf ==
    [dA |-> DepositA, dB |-> DepositB, dE |-> DepositE, dR |-> DepositR]

DepositIds == DOMAIN DepositOf

\* the deposits submitted in batches
RunDeposits == {DepositA, DepositB, DepositX}

SeqsUpTo(S, n) == UNION {[1..k -> S] : k \in 0..n}

Batches == SeqsUpTo(RunDeposits, MaxBatch)

RECURSIVE Canonical(_)
\* the destination handles of a batch: three per deposit, in order
Canonical(b) ==
    IF b = <<>> THEN <<>>
    ELSE <<Head(b).user_ply, Head(b).user_carb, Head(b).user_ewaste>>
             \o Canonical(Tail(b))

\* the remaining accounts a caller passes with batch b: the right ones, one
\* too few, or the last deposit's CARB and EWASTE handles exchanged
AccountLists(b) ==
    LET c == Canonical(b)
        n == Len(c)
    IN  IF n = 0 THEN {c}
        ELSE {c, SubSeq(c, 1, n - 1),
              [c EXCEPT ![n - 1] = c[n], ![n] = c[n - 1]]}

\* the same without the exchanged handles
RunAccountLists(b) ==
    LET c == Canonical(b)
    IN  IF c = <<>> THEN {c} ELSE {c, SubSeq(c, 1, Len(c) - 1)}

\* reward_amount of initialize: zero, a small amount, and u64::MAX - 1
RewardAmounts == {U64(0), U64(1000), <<18, 446744, 73709, 551614>>}

RunRewardAmounts == {U64(1000), <<18, 446744, 73709, 551614>>}

NftAccounts == {"u1_nft", "u1_ply"}

RECURSIVE SumAmounts(_)
SumAmounts(b) == IF b = <<>> THEN 0 ELSE Head(b).amount + SumAmounts(Tail(b))

\* the bounds of a deposit's fields, field by field
AmountIn(d)        == 0 < d.amount /\ d.amount <= 1000000
ContaminationIn(d) == d.contamination <= d.contamination_threshold
TemperatureIn(d)   == d.min_temperature <= d.temperature
                      /\ d.temperature <= d.max_temperature
HumidityIn(d)      == d.min_humidity <= d.humidity
                      /\ d.humidity <= d.max_humidity
VibrationIn(d)     == d.vibration <= d.max_vibration
FillLevelIn(d)     == d.fill_level <= d.max_fill_level
EsgIn(d)           == 0 < d.esg_metrics.carbon_offset
                      /\ d.esg_metrics.recyclability <= 10000

\* the number of telemetry fields of d outside their tenant bound
TelemetryOut(d) ==
    Cardinality({k \in 1..5 :
        ~ <<ContaminationIn(d), TemperatureIn(d), HumidityIn(d),
            VibrationIn(d), FillLevelIn(d)>>[k]})

WithinBounds(d) == AmountIn(d) /\ TelemetryOut(d) = 0 /\ EsgIn(d)

\* three destination accounts per deposit, each of the mint it is used for
HandlesOk(b, l) ==
    /\ Len(l) >= 3 * Len(b)
    /\ \A i \in 0..(Len(b) - 1) :
          /\ AccountMint[l[3 * i + 1]] = "ply"
          /\ AccountMint[l[3 * i + 2]] = "carb"
          /\ AccountMint[l[3 * i + 3]] = "ewaste"

\* amount plus the amounts of the batch is a u64
Fits(amount, b) == LimbsLeq(LimbsAdd(amount, SumAmounts(b)), U64_MAX)

NoProbe == [stage |-> "none"]

----------------------------------------------------------------------------
(* The program: one action per instruction *)

\* what the caller of an instruction observes: the instruction, its result
\* and the index the batch loop stopped at, with a summary of the batch it
\* submitted (valid: every deposit is within its bounds; handles: three
\* destination accounts of the right mints per deposit; fits: the amounts
\* added to vault.amount stay within 64 bits)
Ret(op, res, at) ==
    [op |-> op, res |-> res, at |-> at,
     valid |-> TRUE, handles |-> TRUE, fits |-> TRUE]

BatchRet(res, at, deposits, accounts) ==
    [op |-> "mint_batch_rewards", res |-> res, at |-> at,
     valid   |-> \A i \in 1..Len(deposits) : WithinBounds(deposits[i]),
     handles |-> HandlesOk(deposits, accounts),
     fits    |-> vault.exists => Fits(vault.amount, deposits)]

Init ==
    /\ vault = NoVault
    /\ balances = [a \in TokenAccounts |-> 0]
    /\ events = <<>>
    /\ ret = Ret("none", "none", 0 - 1)
    /\ reward0 = U64(0)
    /\ processed = 0
    /\ nmints = 0
    /\ probe = NoProbe

Initialize(authority, reward_amount) ==
    /\ IF vault.exists
       THEN /\ ret' = Ret("initialize", "AlreadyInUse", 0 - 1)
            /\ UNCHANGED <<vault, reward0>>
       ELSE /\ ret' = Ret("initialize", "Ok", 0 - 1)
            /\ vault' = initialize(authority, reward_amount)
            /\ reward0' = reward_amount
    /\ UNCHANGED <<balances, events, processed, nmints, probe>>

ApproveMint(admin) ==
    /\ IF ~vault.exists
       THEN /\ ret' = Ret("approve_mint", "AccountNotInitialized", 0 - 1)
            /\ UNCHANGED vault
       ELSE \E o \in approve_mint(vault) :
               /\ ret' = Ret("approve_mint", o.res, 0 - 1)
               /\ vault' = TxCommit(o.res, vault, o.vault)
    /\ UNCHANGED <<balances, events, reward0, processed, nmints, probe>>

\* mint_batch_rewards in a run with at most n successful batch mints
MintBatchRewardsUpTo(n, deposits, accounts) ==
    \E out \in {mint_batch_rewards(vault, balances, deposits, accounts)} :
        /\ out.res = "Ok" => nmints < n
        /\ ret' = BatchRet(out.res, out.at, deposits, accounts)
        /\ vault' = TxCommit(out.res, vault, out.vault)
        /\ balances' = TxCommit(out.res, balances, out.balances)
        /\ processed' = IF out.res = "Ok"
                        THEN processed + SumAmounts(deposits) ELSE processed
        /\ nmints' = IF out.res = "Ok" THEN nmints + 1 ELSE nmints
        /\ UNCHANGED <<events, reward0, probe>>

MintBatchRewards(deposits, accounts) ==
    MintBatchRewardsUpTo(MaxMints, deposits, accounts)

MintEsgNft(deposit_id, esg_metrics, user_nft_account) ==
    \E out \in {mint_esg_nft(balances, events, deposit_id, esg_metrics,
                            user_nft_account)} :
        /\ out.res = "Ok" => Len(events) < MaxNfts
        /\ ret' = Ret("mint_esg_nft", out.res, 0 - 1)
        /\ balances' = TxCommit(out.res, balances, out.balances)
        /\ events' = TxCommit(out.res, events, out.events)
        /\ UNCHANGED <<vault, reward0, processed, nmints, probe>>

\* approve_mint in a run whose admins stop approving at MaxApprovals
ApproveMintUpTo(n, admin) ==
    /\ vault.exists => vault.admin_approvals < n
    /\ ApproveMint(admin)

Next ==
    \/ \E a \in Deployers, r \in RunRewardAmounts : Initialize(a, r)
    \/ \E a \in Signers : ApproveMintUpTo(MaxApprovals, a)
    \/ \E b \in Batches : \E l \in RunAccountLists(b) :
          MintBatchRewards(b, l)
    \/ \E id \in DepositIds, acc \in NftAccounts :
          MintEsgNft(id, DepositOf[id].esg_metrics, acc)

Spec == Init /\ [][Next]_vars

----------------------------------------------------------------------------
(* The approval gate over the whole range of the u8 counter: the admins     *)
(* approve without limit, and batches of at most one valid deposit are      *)
(* submitted with each choice of remaining accounts.                        *)

GateBatches == {<<>>, <<DepositA>>, <<DepositB>>}

NextGate ==
    \/ \E a \in Deployers, r \in RewardAmounts : Initialize(a, r)
    \/ \E a \in Signers : ApproveMint(a)
    \/ \E b \in GateBatches : \E l \in AccountLists(b) :
          MintBatchRewards(b, l)

SpecGate == Init /\ [][NextGate]_vars

----------------------------------------------------------------------------
(* Two quorums: runs with up to two successful batch mints and up to three  *)
(* approvals before each.                                                   *)

MaxQuorumMints == 2

MaxQuorumApprovals == 3

NextQuorum ==
    \/ \E a \in Deployers, r \in RunRewardAmounts : Initialize(a, r)
    \/ \E a \in Signers : ApproveMintUpTo(MaxQuorumApprovals, a)
    \/ \E b \in GateBatches : \E l \in RunAccountLists(b) :
          MintBatchRewardsUpTo(MaxQuorumMints, b, l)

SpecQuorum == Init /\ [][NextQuorum]_vars

----------------------------------------------------------------------------
(* Batches with several invalid deposits: up to three deposits, none or at  *)
(* least two of them invalid, submitted with their handles or with only     *)
(* the first two.                                                           *)

MaxOrderBatch == 3

OrderDeposits == {DepositB, DepositX, DepositE}

\* the indices (from 1) of the deposits of b outside their bounds
InvalidAt(b) == {k \in 1..Len(b) : ~WithinBounds(b[k])}

OrderBatches ==
    {b \in SeqsUpTo(OrderDeposits, MaxOrderBatch) :
        Cardinality(InvalidAt(b)) # 1}

OrderAccountLists(b) ==
    LET c == Canonical(b)
    IN  IF c = <<>> THEN {c} ELSE {c, SubSeq(c, 1, 2)}

NextOrder ==
    \/ \E a \in Deployers, r \in RunRewardAmounts : Initialize(a, r)
    \/ \E a \in Signers : ApproveMintUpTo(MaxApprovals, a)
    \/ \E b \in OrderBatches : \E l \in OrderAccountLists(b) :
          MintBatchRewards(b, l)

SpecOrder == Init /\ [][NextOrder]_vars

----------------------------------------------------------------------------
(* Validation and scoring as pure functions: every deposit of a grid of     *)
(* field values around the bounds is validated, and scored when valid.      *)

Amounts         == {0, 1, 1000000, 1000001, 2000000}
Contaminations  == {999, 1000, 1999, 2000, 3001}
Temperatures    == {0 - 501, 999, 1000, 3000, 3001, 3501}
Humidities      == {999, 3999, 4000, 7000, 7001, 8001}
Vibrations      == {4999, 5000, 6001}
FillLevels      == {8999, 9000, 9501}
CarbonOffsets   == {0, 50}
Recyclabilities == {9000, 9001, 10000, 10001}

\* the low-compliance scenario: contamination 50 against a threshold of 10,
\* temperature 25 in [10, 30], every other field within its bound
TightPolicy == Policy(10, 10, 30, 1000, 8000, 6000, 9500)

DepositLow ==
    BatchDeposit(User1, 1000, 50, 25, 5000, 100, 5000, EsgMetrics(50, 8000),
                 TightPolicy, 10, 10, 0)

\* the same reading with contamination 5, under the threshold
DepositTight == [DepositLow EXCEPT !.contamination = 5]

ScenarioDeposits == {DepositLow, DepositTight}

GridDeposits ==
    {BatchDeposit(User1, a, c, t, h, v, f, EsgMetrics(co, rec), WidePolicy,
                  10, 10, 0) :
        a \in Amounts, c \in Contaminations, t \in Temperatures,
        h \in Humidities, v \in Vibrations, f \in FillLevels,
        co \in CarbonOffsets, rec \in Recyclabilities}

InitValidate ==
    /\ vault = NoVault
    /\ balances = [a \in TokenAccounts |-> 0]
    /\ events = <<>>
    /\ ret = Ret("none", "none", 0 - 1)
    /\ reward0 = U64(0)
    /\ processed = 0
    /\ nmints = 0
    /\ probe \in {[stage |-> "new", deposit |-> d, verdict |-> "none",
                   flagged |-> "none", score |-> <<0, 0>>] :
                      d \in GridDeposits \cup ScenarioDeposits}

Validate ==
    /\ probe.stage = "new"
    /\ probe' = [probe EXCEPT !.stage = "validated",
                              !.verdict = validate_deposit(probe.deposit),
                              !.flagged = validate_telemetry(probe.deposit)]
    /\ UNCHANGED <<vault, balances, events, ret, reward0, processed, nmints>>

Score ==
    /\ probe.stage = "validated"
    /\ probe.verdict = "Ok"
    /\ probe' = [probe EXCEPT !.stage = "scored",
                              !.score = Compliance(probe.deposit)]
    /\ UNCHANGED <<vault, balances, events, ret, reward0, processed, nmints>>

NextValidate == Validate \/ Score

SpecValidate == InitValidate /\ [][NextValidate]_vars

----------------------------------------------------------------------------
(* The reward calculation as a pure function, in its two forms: the         *)
(* fixed-point calculate_rewards, evaluated by either build at two scores   *)
(* lo <= hi of one deposit, and the tiered quantities of the                *)
(* mint_batch_rewards loop, evaluated at two f64 scores lo <= hi.           *)

FixedAmounts == {1, 1000, 999999, 1000000}

\* ply multipliers; the carb and ewaste multipliers are one and two higher
FixedMultipliers == {0, 1, 2}

\* compliance scores scaled by SCALE; at amount 1000000 and multiplier 2
\* the ply product passes 2^64 between 922337 and 922338
FixedScores == {0, 1, 500000, 900000, 922337, 922338, 1000000}

FixedProbes ==
    {[stage |-> "fixed", build |-> b,
      deposit |-> RewardDeposit(a, m, m + 1, m + 2), lo |-> s1, hi |-> s2] :
        b \in Builds, a \in FixedAmounts, m \in FixedMultipliers,
        s1 \in FixedScores, s2 \in FixedScores}

\* every f64 the score addition can produce
ScoreValues == {e[3] : e \in F64Sum}

\* x <= y on f64 values
F64Le(x, y) == x[1] < y[1] \/ (x[1] = y[1] /\ x[2] <= y[2])

\* DepositA with amounts 1 and 2 and multipliers -1.0, 0.0, 1.0 and 2.0 (the
\* f64 products of these deposits are the products of the tenths)
TierDeposits ==
    {[DepositA EXCEPT !.amount = a, !.ply_multiplier = km,
                      !.carb_multiplier = km, !.ewaste_multiplier = km] :
        a \in {1, 2}, km \in {0 - 10, 0, 10, 20}}

TierProbes ==
    {[stage |-> "tiers", deposit |-> d, lo |-> f1, hi |-> f2] :
        d \in TierDeposits, f1 \in ScoreValues, f2 \in ScoreValues}

InitRewards ==
    /\ vault = NoVault
    /\ balances = [a \in TokenAccounts |-> 0]
    /\ events = <<>>
    /\ ret = Ret("none", "none", 0 - 1)
    /\ reward0 = U64(0)
    /\ processed = 0
    /\ nmints = 0
    /\ probe \in {q \in FixedProbes : q.lo <= q.hi}
                  \cup {q \in TierProbes : F64Le(q.lo, q.hi)}

CalculateRewards ==
    /\ probe.stage = "fixed"
    /\ probe' = [stage |-> "rewarded", build |-> probe.build,
                 deposit |-> probe.deposit, lo |-> probe.lo, hi |-> probe.hi,
                 out_lo |-> calculate_rewards(probe.build, probe.deposit,
                                              probe.lo),
                 out_hi |-> calculate_rewards(probe.build, probe.deposit,
                                              probe.hi)]
    /\ UNCHANGED <<vault, balances, events, ret, reward0, processed, nmints>>

\* the multiplier and the three quantities of the loop body for deposit d
\* at the score compliance
tier_rewards(d, compliance) ==
    LET multiplier == tier_multiplier(compliance)
        esg_mult   == esg_multiplier(d)
    IN  [multiplier |-> multiplier,
         ply    |-> token_quantity(d.amount, 10, multiplier,
                                   d.ply_multiplier, esg_mult),
         carb   |-> token_quantity(d.amount, 5, multiplier,
                                   d.carb_multiplier, esg_mult),
         ewaste |-> token_quantity(d.amount, 2, multiplier,
                                   d.ewaste_multiplier, esg_mult)]

TierRewards ==
    /\ probe.stage = "tiers"
    /\ probe' = [stage |-> "tiered", deposit |-> probe.deposit,
                 lo |-> probe.lo, hi |-> probe.hi,
                 out_lo |-> tier_rewards(probe.deposit, probe.lo),
                 out_hi |-> tier_rewards(probe.deposit, probe.hi)]
    /\ UNCHANGED <<vault, balances, events, ret, reward0, processed, nmints>>

NextRewards == CalculateRewards \/ TierRewards

SpecRewards == InitRewards /\ [][NextRewards]_vars

----------------------------------------------------------------------------
(* calculate_compliance_score on pairs of deposits that differ in one       *)
(* telemetry field, under the wide tenant policy and under a cold-storage   *)
(* policy whose temperature range is [-5.00, 5.00] degrees.                 *)

ColdPolicy == Policy(3000, 0 - 500, 500, 1000, 8000, 6000, 9500)

TelemetryFields ==
    {"contamination", "temperature", "humidity", "vibration", "fill_level"}

\* readings of a field: around the tenant bounds and around the bands of the
\* score
FieldValues ==
    [contamination |-> {5, 999, 1000, 1999, 2000, 3000, 3001},
     temperature   |-> {0 - 501, 0, 500, 999, 1500, 3000, 3001, 3501},
     humidity      |-> {999, 3999, 4000, 5000, 7000, 7001, 8001},
     vibration     |-> {100, 4999, 5000, 6001},
     fill_level    |-> {5000, 8999, 9000, 9501}]

\* deposit d with the reading x in the field f
WithField(d, f, x) ==
    CASE f = "contamination" -> [d EXCEPT !.contamination = x]
      [] f = "temperature"   -> [d EXCEPT !.temperature = x]
      [] f = "humidity"      -> [d EXCEPT !.humidity = x]
      [] f = "vibration"     -> [d EXCEPT !.vibration = x]
      [] f = "fill_level"    -> [d EXCEPT !.fill_level = x]

PairBases ==
    {BatchDeposit(User1, 1000, 5, 2500, 5000, 100, 5000, EsgMetrics(50, rec),
                  pol, 10, 10, 0) :
        rec \in {8000, 9500}, pol \in {WidePolicy, ColdPolicy}}

PairProbes ==
    UNION {{[stage |-> "pair", field |-> f, a |-> WithField(d, f, x),
             b |-> WithField(d, f, y)] :
               d \in PairBases, x \in FieldValues[f], y \in FieldValues[f]} :
           f \in TelemetryFields}

InitScorePair ==
    /\ vault = NoVault
    /\ balances = [a \in TokenAccounts |-> 0]
    /\ events = <<>>
    /\ ret = Ret("none", "none", 0 - 1)
    /\ reward0 = U64(0)
    /\ processed = 0
    /\ nmints = 0
    /\ probe \in PairProbes

ScorePair ==
    /\ probe.stage = "pair"
    /\ probe' = [stage |-> "pair_scored", field |-> probe.field,
                 a |-> probe.a, b |-> probe.b,
                 score_a |-> Compliance(probe.a),
                 score_b |-> Compliance(probe.b)]
    /\ UNCHANGED <<vault, balances, events, ret, reward0, processed, nmints>>

NextScorePair == ScorePair

SpecScorePair == InitScorePair /\ [][NextScorePair]_vars

----------------------------------------------------------------------------
(* emit_wormhole_message as a pure function: two calls with the same asset, *)
(* recipient and ESG metrics, each with its own target chain and score.     *)

\* 32-byte keys: all zero, ascending, and descending from 0xFF
Pubkeys ==
    {[i \in 1..32 |-> 0], [i \in 1..32 |-> i], [i \in 1..32 |-> 256 - i]}

Recipients == {[i \in 1..32 |-> 7 * i], [i \in 1..32 |-> 256 - i]}

\* u64 metrics: 0, small values, 2^16 + 3, 2^32, a value with eight
\* different bytes, and u64::MAX
MetricValues ==
    {U64(0), U64(50), U64(8000), U64(65539), <<0, 0, 4294, 967296>>,
     <<1, 234567, 890123, 456789>>, U64_MAX}

TargetChains == {2, 5}

WormholeScores == {U64(500000), U64(1000000)}

WormholeProbes ==
    {[stage |-> "emit", nft_mint |-> k, recipient |-> r,
      esg_metrics |-> EsgMetrics(co, rec), cpi_ok |-> ok,
      target_chain |-> tc, compliance_score |-> cs] :
        k \in Pubkeys, r \in Recipients, co \in MetricValues,
        rec \in MetricValues, ok \in BOOLEAN,
        tc \in TargetChains \X TargetChains,
        cs \in WormholeScores \X WormholeScores}

InitWormhole ==
    /\ vault = NoVault
    /\ balances = [a \in TokenAccounts |-> 0]
    /\ events = <<>>
    /\ ret = Ret("none", "none", 0 - 1)
    /\ reward0 = U64(0)
    /\ processed = 0
    /\ nmints = 0
    /\ probe \in WormholeProbes

EmitWormholeMessage ==
    /\ probe.stage = "emit"
    /\ probe' = [probe EXCEPT !.stage = "emitted"]
                   @@ [out |-> [n \in 1..2 |->
                          emit_wormhole_message(probe.nft_mint,
                              probe.target_chain[n], probe.recipient,
                              probe.esg_metrics, probe.compliance_score[n],
                              probe.cpi_ok)]]
    /\ UNCHANGED <<vault, balances, events, ret, reward0, processed, nmints>>

NextWormhole == EmitWormholeMessage

SpecWormhole == InitWormhole /\ [][NextWormhole]_vars

----------------------------------------------------------------------------
(* The off-chain API, api/rewards/deposit.js: POST /api/rewards/deposit     *)
(* behind express-rate-limit.  A JSON number is [finite, v]; mse, the       *)
(* reconstruction error of the autoencoder, is given in thousandths.        *)

Num(n) == [finite |-> TRUE, v |-> n]

NaN == [finite |-> FALSE, v |-> 0]

\* const threshold = 0.15, in thousandths
threshold == 150

RATE_LIMIT_MAX == 100

\* requests of one client followed within a window
MaxRequests == 102

\* variant: the upper amount bound left out
validateTelemetry(telemetry) ==
    /\ telemetry.amount.finite
    /\ telemetry.amount.v > 0
    /\ telemetry.amount.v <= 1000000
    /\ telemetry.contamination.finite

\* mse > threshold; a comparison with NaN is false
above_threshold(mse) == mse.finite /\ mse.v > threshold


\* how an insert into the store ends: the row is stored, the promise
\* resolves with an error, or the promise rejects
InsertOutcomes == {"stored", "error", "reject"}

\* the major versions of express (none is pinned): version 4 does nothing
\* with the rejected promise of an async handler, version 5 passes it to
\* the default error handler
ExpressVersions == {4, 5}

\* a throw or a rejected await that no try of the handler encloses
unhandled(express) ==
    IF express = 5
    THEN <<[op |-> "respond", status |-> 500,
            error |-> "Internal Server Error"]>>
    ELSE <<[op |-> "unhandled_rejection"]>>

\* await supabase.from(table).insert(...) followed by rest: rest runs when
\* the promise resolves, with the row stored or with an error the handler
\* does not look at
insert_then(table, outcome, rest, rejected) ==
    <<[op |-> "insert", table |-> table, outcome |-> outcome]>>
        \o (IF outcome = "reject" THEN rejected ELSE rest)

\* the handler of POST /api/rewards/deposit, as the sequence of what it
\* does: inserts into the store, the post to the mint endpoint, the
\* response.  ins is how the first insert it awaits ends, ins2 the second
post_deposit(telemetry, mse, mint_ok, ins, ins2, express) ==
    LET catch ==
            insert_then("errors", IF mint_ok THEN ins2 ELSE ins,
                        <<[op |-> "respond", status |-> 500,
                           error |-> "error.message"]>>,
                        unhandled(express))
    IN  IF ~validateTelemetry(telemetry)
        THEN insert_then("errors", ins,
                         <<[op |-> "respond", status |-> 400,
                            error |-> "Invalid telemetry"]>>,
                         unhandled(express))
        ELSE IF above_threshold(mse)
        THEN insert_then("fraud_logs", ins,
                         <<[op |-> "respond", status |-> 400,
                            error |-> "Fraud detected"]>>,
                         unhandled(express))
        ELSE IF mint_ok
        THEN <<[op |-> "post", url |-> "/mint", accepted |-> TRUE]>>
                \o insert_then("telemetry_logs", ins,
                               <<[op |-> "respond", status |-> 200,
                                  error |-> "none"]>>,
                               catch)
        ELSE <<[op |-> "post", url |-> "/mint", accepted |-> FALSE]>>
                \o catch

\* the rateLimit middleware in front of the handler: the request counted as
\* number hits of the window is passed on up to max, answered 429 after
rate_limited(hits) == hits > RATE_LIMIT_MAX

\* the documented telemetry examples (amount, contamination)
ValidExample == [amount |-> Num(1000), contamination |-> Num(5)]

FraudExample == [amount |-> Num(2000000), contamination |-> Num(50)]

Telemetries ==
    {ValidExample, FraudExample,
     [amount |-> Num(1000000), contamination |-> Num(50)],
     [amount |-> Num(0), contamination |-> Num(5)],
     [amount |-> NaN, contamination |-> Num(5)],
     [amount |-> Num(1000), contamination |-> NaN]}

MseValues == {Num(20), Num(150), Num(151), Num(900), NaN}

\* the request that is accepted, forwarded and logged
PlainRequest ==
    [telemetry |-> ValidExample, mse |-> Num(20), mint_ok |-> TRUE,
     ins |-> "stored", ins2 |-> "stored"]

\* the requests tried as number hit of a window: every combination for
\* the first request and from the last one the limiter admits on, the
\* plain one in between
RequestsAt(hit) ==
    IF hit \in 2..(RATE_LIMIT_MAX - 1)
    THEN {PlainRequest}
    ELSE [telemetry : Telemetries, mse : MseValues, mint_ok : BOOLEAN,
          ins : InsertOutcomes, ins2 : InsertOutcomes]

InitApi ==
    /\ vault = NoVault
    /\ balances = [a \in TokenAccounts |-> 0]
    /\ events = <<>>
    /\ ret = Ret("none", "none", 0 - 1)
    /\ reward0 = U64(0)
    /\ processed = 0
    /\ nmints = 0
    /\ \E express \in ExpressVersions :
          probe = [stage |-> "api", express |-> express, hits |-> 0,
                   request |-> [telemetry |-> ValidExample, mse |-> NaN,
                               hit |-> 0],
                   did |-> <<>>]

\* one request, from the middleware to the response; request keeps the body,
\* what the autoencoder makes of it and its number in the window, did what
\* was done for it (empty before the first request)
PostDeposit(r) ==
    /\ probe.stage = "api"
    /\ probe.hits < MaxRequests
    /\ probe' = [probe EXCEPT
                    !.hits = @ + 1,
                    !.request = [telemetry |-> r.telemetry, mse |-> r.mse,
                                 hit |-> probe.hits + 1],
                    !.did = IF rate_limited(probe.hits + 1)
                            THEN <<[op |-> "respond", status |-> 429,
                                    error |-> "Too many requests"]>>
                            ELSE post_deposit(r.telemetry, r.mse, r.mint_ok,
                                              r.ins, r.ins2, probe.express)]
    /\ UNCHANGED <<vault, balances, events, ret, reward0, processed, nmints>>

\* the window of the rate limiter (24 hours) ends
WindowReset ==
    /\ probe.stage = "api"
    /\ probe.hits > 0
    /\ probe' = [probe EXCEPT !.hits = 0]
    /\ UNCHANGED <<vault, balances, events, ret, reward0, processed, nmints>>

NextApi ==
    \/ \E r \in RequestsAt(probe.hits + 1) : PostDeposit(r)
    \/ WindowReset

SpecApi == InitApi /\ [][NextApi]_vars

----------------------------------------------------------------------------
(* The relayer, relayer/relayer.ts: runEndToEndWorkflow, one awaited call   *)
(* per line.  The helpers it calls are not part of the sources; each is a   *)
(* promise that resolves with a value or rejects.                           *)

MaxRuns == 2

\* the statements of runEndToEndWorkflow, in program order
WorkflowSteps ==
    <<"submit_telemetry", "trigger_nft_mint", "retrieve_vaa",
      "submit_vaa_to_ethereum", "insert_nft_bridges">>

ApiDepositIds == {"dep1", "dep2"}

NftMints == {"mintA"}

Vaas == {"vaa1"}

TxHashes == {"0xaa", "0xbb"}

\* a const that has not been assigned
Undefined == "undefined"

\* the awaited promise rejects
Rejects == "rejects"

\* const x = await p: x gets the value p resolves with
Assigned(res) == IF res = Rejects THEN Undefined ELSE res

await_ignore(ok, next) == next

\* await: on to the next statement when the promise resolves, out of the
\* function when it rejects
await_then(ok, next) == IF ok THEN next ELSE "rejected"

InitRelayer ==
    /\ vault = NoVault
    /\ balances = [a \in TokenAccounts |-> 0]
    /\ events = <<>>
    /\ ret = Ret("none", "none", 0 - 1)
    /\ reward0 = U64(0)
    /\ processed = 0
    /\ nmints = 0
    /\ probe = [stage |-> "relay", pc |-> "idle", runs |-> 0,
                recipient |-> None, depositId |-> Undefined,
                mint |-> Undefined, vaa |-> Undefined,
                txHash |-> Undefined, steps |-> <<>>,
                recorded |-> FALSE, nft_bridges |-> <<>>]

\* a call of runEndToEndWorkflow(recipient); steps keeps what this call has
\* awaited so far and how it ended, recorded whether it has stored a row
RunEndToEndWorkflow(recipient) ==
    /\ probe.stage = "relay"
    /\ probe.pc \in {"idle", "done", "rejected"}
    /\ probe.runs < MaxRuns
    /\ probe' = [probe EXCEPT !.pc = "line10", !.runs = @ + 1,
                              !.recipient = recipient,
                              !.depositId = Undefined, !.mint = Undefined,
                              !.vaa = Undefined, !.txHash = Undefined,
                              !.steps = <<>>, !.recorded = FALSE]
    /\ UNCHANGED <<vault, balances, events, ret, reward0, processed, nmints>>

\* line 10: axios.post to the API; res is the deposit_id of a 2xx answer,
\* Rejects when the post rejects (any other status, or no answer)
SubmitTelemetry(res) ==
    /\ probe.stage = "relay" /\ probe.pc = "line10"
    /\ probe' = [probe EXCEPT
                    !.pc = await_then(res # Rejects, "line11"),
                    !.depositId = Assigned(res),
                    !.steps = Append(@, [step |-> "submit_telemetry",
                                         ok |-> res # Rejects])]
    /\ UNCHANGED <<vault, balances, events, ret, reward0, processed, nmints>>

\* line 11: triggerNftMint(depositId.data.deposit_id, recipient)
TriggerNftMint(res) ==
    /\ probe.stage = "relay" /\ probe.pc = "line11"
    /\ probe' = [probe EXCEPT
                    !.pc = await_then(res # Rejects, "line12"),
                    !.mint = Assigned(res),
                    !.steps = Append(@, [step |-> "trigger_nft_mint",
                                         ok |-> res # Rejects])]
    /\ UNCHANGED <<vault, balances, events, ret, reward0, processed, nmints>>

\* line 12: retrieveVaa(mint)
RetrieveVaa(res) ==
    /\ probe.stage = "relay" /\ probe.pc = "line12"
    /\ probe' = [probe EXCEPT
                    !.pc = await_then(res # Rejects, "line13"),
                    !.vaa = Assigned(res),
                    !.steps = Append(@, [step |-> "retrieve_vaa",
                                         ok |-> res # Rejects])]
    /\ UNCHANGED <<vault, balances, events, ret, reward0, processed, nmints>>

\* line 13: submitVaaToEthereum(vaa)
SubmitVaaToEthereum(res) ==
    /\ probe.stage = "relay" /\ probe.pc = "line13"
    /\ probe' = [probe EXCEPT
                    !.pc = await_then(res # Rejects, "line14"),
                    !.txHash = Assigned(res),
                    !.steps = Append(@, [step |-> "submit_vaa_to_ethereum",
                                         ok |-> res # Rejects])]
    /\ UNCHANGED <<vault, balances, events, ret, reward0, processed, nmints>>

\* line 14: the insert into nft_bridges, the last statement
InsertNftBridges(outcome) ==
    /\ probe.stage = "relay" /\ probe.pc = "line14"
    /\ probe' = [probe EXCEPT
                    !.pc = await_then(outcome # "reject", "done"),
                    !.recorded = (outcome = "stored"),
                    !.nft_bridges =
                        IF outcome = "stored"
                        THEN Append(@, [tx_hash |-> probe.txHash])
                        ELSE @,
                    !.steps = Append(@, [step |-> "insert_nft_bridges",
                                         ok |-> outcome = "stored"])]
    /\ UNCHANGED <<vault, balances, events, ret, reward0, processed, nmints>>

NextRelayer ==
    \/ \E recipient \in Recipients : RunEndToEndWorkflow(recipient)
    \/ \E res \in ApiDepositIds \cup {Rejects} : SubmitTelemetry(res)
    \/ \E res \in NftMints \cup {Rejects} : TriggerNftMint(res)
    \/ \E res \in Vaas \cup {Rejects} : RetrieveVaa(res)
    \/ \E res \in TxHashes \cup {Rejects} : SubmitVaaToEthereum(res)
    \/ \E outcome \in InsertOutcomes : InsertNftBridges(outcome)

SpecRelayer == InitRelayer /\ [][NextRelayer]_vars

----------------------------------------------------------------------------
(* Properties *)

IsBatchCall(r) == r.op = "mint_batch_rewards"

\* C1: while the vault has fewer than 2 approvals, mint_batch_rewards fails
\* with InsufficientApprovals and leaves the vault (amount and approvals)
\* and every token balance as they were.
C1_GateRejects ==
    [][(IsBatchCall(ret') /\ vault.exists /\ vault.admin_approvals < 2)
          => /\ ret'.res = "InsufficientApprovals"
             /\ vault' = vault
             /\ balances' = balances]_vars

C1_Witness ==
    /\ IsBatchCall(ret) /\ ret.res = "InsufficientApprovals"
    /\ vault.exists /\ vault.admin_approvals = 1
    /\ ret.valid /\ ret.handles /\ ret.fits

\* C2: a batch with a deposit that fails validation fails as a whole and
\* commits nothing: the vault, its approvals included, and every token
\* balance keep their values from before the call, whatever was minted or
\* added for the earlier deposits of the batch.
C2_BatchAtomic ==
    [][(IsBatchCall(ret') /\ ~ret'.valid)
          => /\ ret'.res # "Ok"
             /\ vault' = vault
             /\ balances' = balances]_vars

\* the second deposit of a batch was rejected after the first was minted
C2_Witness ==
    /\ IsBatchCall(ret) /\ ~ret.valid /\ ret.at = 1
    /\ ret.res \in {"InvalidAmount", "InvalidTelemetry"}
    /\ vault.exists /\ vault.admin_approvals >= 2

C4_NoMintBelowQuorum ==
    [][(balances' # balances)
          => (vault.exists /\ vault.admin_approvals >= 2)]_vars

\* C5: admin_approvals is lower after a step only when the step is a
\* successful mint_batch_rewards.
C5_OnlyMintLowers ==
    [][(vault.exists /\ vault'.admin_approvals < vault.admin_approvals)
          => (IsBatchCall(ret') /\ ret'.res = "Ok")]_vars

Probed == probe.stage \in {"validated", "scored"}

\* C7: validation accepts a deposit whose fields are all within bounds,
\* rejects with InvalidAmount one whose only violation is the amount, and
\* rejects with InvalidTelemetry one with exactly one telemetry field
\* (contamination, temperature, humidity, vibration, fill level) out of its
\* tenant bound.
C7_ValidationKinds ==
    Probed =>
        LET d == probe.deposit
        IN  /\ WithinBounds(d) => probe.verdict = "Ok"
            /\ (~AmountIn(d) /\ TelemetryOut(d) = 0 /\ EsgIn(d))
                  => probe.verdict = "InvalidAmount"
            /\ (AmountIn(d) /\ TelemetryOut(d) = 1 /\ EsgIn(d))
                  => probe.verdict = "InvalidTelemetry"

C7_Witness ==
    /\ Probed /\ probe.verdict = "InvalidTelemetry"
    /\ AmountIn(probe.deposit) /\ EsgIn(probe.deposit)
    /\ TelemetryOut(probe.deposit) = 1 /\ ~HumidityIn(probe.deposit)

\* C8: a deposit whose only violation is an ESG field (zero carbon offset or
\* recyclability above 10000) is rejected with InvalidEsgMetrics.
C8_EsgKind ==
    (Probed /\ AmountIn(probe.deposit) /\ TelemetryOut(probe.deposit) = 0
        /\ ~EsgIn(probe.deposit))
        => probe.verdict = "InvalidEsgMetrics"

\* C9: the compliance score of a deposit that passes validation is at least
\* 0.0 and at most 1.0.
C9_ScoreInUnitRange ==
    probe.stage = "scored"
        => (F64Geq(probe.score, 0) /\ F64Leq(probe.score, 10))

\* C10: an ESG NFT is minted only for a deposit whose compliance score is
\* at least 0.5.
C10_NftOnlyAboveBar ==
    \A k \in 1..Len(events) :
        F64Geq(Compliance(DepositOf[events[k].deposit_id]), 5)

\* the scenario's deposit: contamination 50 against contamination_threshold
\* 10, the amount and every other field within bounds
LowComplianceScenario(d) ==
    /\ d.contamination = 50 /\ d.contamination_threshold = 10
    /\ AmountIn(d) /\ TemperatureIn(d) /\ HumidityIn(d) /\ VibrationIn(d)
    /\ FillLevelIn(d) /\ EsgIn(d)

WideTimes(w, n) ==
    LimbsSum(LimbsScale(LimbsScale(w, n \div 1000), 1000),
             LimbsScale(w, n % 1000))

\* amount * rate * SCALE * multiplier * score as a natural number
ExactProduct(amount, rate, multiplier, score) ==
    WideTimes(WideTimes(WideTimes(WideTimes(<<0, 0>> \o U64(amount), rate),
                                  SCALE), multiplier), score)

ExceedsU64(w) == ~LimbsLe(w, <<0, 0>> \o U64_MAX)

\* one of the three products of calculate_rewards for deposit d at the
\* score exceeds the 64-bit unsigned range
ProductOverflows(d, score) ==
    \/ ExceedsU64(ExactProduct(d.amount, 10, d.ply_multiplier, score))
    \/ ExceedsU64(ExactProduct(d.amount, 5, d.carb_multiplier, score))
    \/ ExceedsU64(ExactProduct(d.amount, 2, d.ewaste_multiplier, score))

\* floor(amount * rate * (SCALE * multiplier) * score / SCALE^2)
ExactQuantity(amount, rate, multiplier, score) ==
    SubSeq(ExactProduct(amount, rate, multiplier, score), 1, 4)

\* the two evaluations of a probe: <<score, result>>
Evaluations == {<<probe.lo, probe.out_lo>>, <<probe.hi, probe.out_hi>>}

\* C12: when a product of the reward computation exceeds the 64-bit
\* unsigned range, the computation fails with the named error
\* ArithmeticOverflow; it neither returns a (wrapped) quantity nor fails in
\* another way.
C12_OverflowIsNamedError ==
    probe.stage = "rewarded" =>
        \A e \in Evaluations :
            ProductOverflows(probe.deposit, e[1])
                => e[2].res = "ArithmeticOverflow"

\* C13: for each token kind (PLY, CARB, EWASTE with base rates 10, 5, 2)
\* calculate_rewards returns exactly
\* floor(amount * rate * multiplier * score / SCALE^2), the multiplier being
\* the deposit's scaled by SCALE.
C13_ExactQuantities ==
    probe.stage = "rewarded" =>
        \A e \in Evaluations :
            e[2].res = "Ok" =>
                LET d == probe.deposit
                IN  /\ e[2].ply = ExactQuantity(d.amount, 10,
                                                d.ply_multiplier, e[1])
                    /\ e[2].carb = ExactQuantity(d.amount, 5,
                                                 d.carb_multiplier, e[1])
                    /\ e[2].ewaste = ExactQuantity(d.amount, 2,
                                                   d.ewaste_multiplier, e[1])

\* C14: with amount and multipliers fixed, each of the three reward
\* quantities is non-decreasing in the compliance score, in the fixed-point
\* calculation and in the tiered one; the tier multiplier is 1.0 from 0.8,
\* 0.7 from 0.5 up to 0.8, and 0.4 below 0.5.
C14_RewardsMonotone ==
    /\ (probe.stage = "rewarded" /\ probe.out_lo.res = "Ok"
           /\ probe.out_hi.res = "Ok")
          => /\ LimbsLe(probe.out_lo.ply, probe.out_hi.ply)
             /\ LimbsLe(probe.out_lo.carb, probe.out_hi.carb)
             /\ LimbsLe(probe.out_lo.ewaste, probe.out_hi.ewaste)
    /\ probe.stage = "tiered"
          => /\ probe.out_lo.ply <= probe.out_hi.ply
             /\ probe.out_lo.carb <= probe.out_hi.carb
             /\ probe.out_lo.ewaste <= probe.out_hi.ewaste
             /\ \A e \in Evaluations :
                   e[2].multiplier =
                       IF F64Geq(e[1], 8) THEN 10
                       ELSE IF F64Geq(e[1], 5) THEN 7 ELSE 4

\* how far the reading x lies outside [lo, hi]; 0 inside
Outside(x, lo, hi) == IF x < lo THEN lo - x ELSE IF x > hi THEN x - hi ELSE 0

\* how far the reading of field f of deposit d lies outside the range the
\* deposit's tenant policy accepts
FieldDistance(d, f) ==
    CASE f = "contamination" ->
            Outside(d.contamination, 0, d.contamination_threshold)
      [] f = "temperature" ->
            Outside(d.temperature, d.min_temperature, d.max_temperature)
      [] f = "humidity" ->
            Outside(d.humidity, d.min_humidity, d.max_humidity)
      [] f = "vibration" -> Outside(d.vibration, 0, d.max_vibration)
      [] f = "fill_level" -> Outside(d.fill_level, 0, d.max_fill_level)

Emitted == probe.stage = "emitted"

RECURSIVE from_le_bytes(_)
\* the u64 whose little-endian bytes are given
from_le_bytes(bytes) ==
    IF bytes = <<>> THEN U64(0)
    ELSE LimbsAdd(LimbsScale(from_le_bytes(Tail(bytes)), 256), Head(bytes))

\* C16: emit_wormhole_message publishes a payload of exactly 82 bytes: bytes
\* [0,2) are 0x00 0x01, [2,34) the asset identifier, [34,66) the recipient,
\* [66,74) the carbon offset and [74,82) the recyclability, each as 8 bytes
\* little-endian; two calls that differ only in target_chain or
\* compliance_score publish the same payload.
C16_PayloadLayout ==
    Emitted =>
        /\ \A n \in 1..2 :
              probe.out[n].res = "Ok" =>
                LET payload == probe.out[n].published
                IN  /\ Len(payload) = 82
                    /\ \A i \in 1..Len(payload) : payload[i] \in 0..255
                    /\ SubSeq(payload, 1, 2) = <<0, 1>>
                    /\ SubSeq(payload, 3, 34) = probe.nft_mint
                    /\ SubSeq(payload, 35, 66) = probe.recipient
                    /\ from_le_bytes(SubSeq(payload, 67, 74))
                          = probe.esg_metrics.carbon_offset
                    /\ from_le_bytes(SubSeq(payload, 75, 82))
                          = probe.esg_metrics.recyclability
        /\ probe.out[1] = probe.out[2]

C16_Witness ==
    /\ Emitted /\ probe.out[1].res = "Ok"
    /\ probe.target_chain[1] # probe.target_chain[2]
    /\ probe.compliance_score[1] # probe.compliance_score[2]
    /\ probe.esg_metrics.carbon_offset = U64(8000)

\* the payload read back by its fixed byte offsets
Decode(payload) ==
    [nft_mint      |-> SubSeq(payload, 3, 34),
     recipient     |-> SubSeq(payload, 35, 66),
     carbon_offset |-> from_le_bytes(SubSeq(payload, 67, 74)),
     recyclability |-> from_le_bytes(SubSeq(payload, 75, 82))]

\* C17: decoding a published payload by the byte offsets 2..34, 34..66,
\* 66..74 (little-endian) and 74..82 (little-endian) gives back the asset
\* identifier, the recipient, the carbon offset and the recyclability that
\* were encoded.
C17_RoundTrip ==
    Emitted =>
        \A n \in 1..2 :
            probe.out[n].res = "Ok" =>
                Decode(probe.out[n].published)
                    = [nft_mint      |-> probe.nft_mint,
                       recipient     |-> probe.recipient,
                       carbon_offset |-> probe.esg_metrics.carbon_offset,
                       recyclability |-> probe.esg_metrics.recyclability]

C17_Witness ==
    /\ Emitted /\ probe.out[1].res = "Ok"
    /\ probe.esg_metrics.carbon_offset = <<1, 234567, 890123, 456789>>
    /\ probe.esg_metrics.recyclability = U64(65539)
    /\ probe.nft_mint = [i \in 1..32 |-> i]

\* C18: a successful approve_mint leaves admin_approvals exactly one greater
\* than before, for every value of the u8 counter and whoever the signer is
\* (approvals are not deduplicated by identity).
C18_ApproveAddsOne ==
    [][(ret'.op = "approve_mint" /\ ret'.res = "Ok")
          => vault'.admin_approvals = vault.admin_approvals + 1]_vars

\* a request has been handled; its response is the last thing done for it
Handled == probe.stage = "api" /\ probe.did # <<>>

Response == probe.did[Len(probe.did)]

\* the last thing done for the request is its response
Responded == Handled /\ Response.op = "respond"

\* the request was posted to the mint endpoint
Forwarded == \E k \in 1..Len(probe.did) : probe.did[k].op = "post"

\* finite amount in (0, 1000000] and finite contamination
WellFormed(telemetry) ==
    /\ telemetry.amount.finite /\ telemetry.contamination.finite
    /\ 0 < telemetry.amount.v /\ telemetry.amount.v <= 1000000

\* the reconstruction error is above 0.15
Flagged(mse) == mse.finite /\ mse.v > 150

\* the row is in fraud_logs before the response
LoggedBeforeResponse ==
    \E k \in 1..(Len(probe.did) - 1) :
        /\ probe.did[k].op = "insert"
        /\ probe.did[k].table = "fraud_logs"
        /\ probe.did[k].outcome = "stored"

\* C19: telemetry that the fraud detector flags (reconstruction error above
\* 0.15), the documented fraudulent example with amount 2000000 included,
\* is rejected with an error whose message is 'Fraud detected'.
C19_FraudRejected ==
    (Handled /\ Flagged(probe.request.mse))
        => /\ Responded
           /\ Response.status >= 400
           /\ Response.error = "Fraud detected"

\* C20 as stated: telemetry is posted to the mint endpoint only if it is
\* well formed and not flagged; a request that is malformed or flagged is
\* answered with status 400 and not forwarded; a flagged request is
\* recorded in fraud_logs before the response.
C20_OnlyCleanForwarded ==
    Handled =>
        LET t == probe.request.telemetry
            mse == probe.request.mse
        IN  /\ Forwarded => (WellFormed(t) /\ ~Flagged(mse))
            /\ (~WellFormed(t) \/ Flagged(mse))
                  => (Responded /\ Response.status = 400 /\ ~Forwarded)
            /\ (WellFormed(t) /\ Flagged(mse))
                  => (Responded /\ LoggedBeforeResponse)

\* C21: runEndToEndWorkflow performs its steps in program order (submit
\* telemetry, trigger the NFT mint, retrieve the VAA, submit it to Ethereum,
\* record the hash in nft_bridges); a step starts only after every earlier
\* one succeeded, so after a failure no later step runs and no nft_bridges
\* row is written; a workflow that runs to its end has a transaction hash,
\* and the row it writes carries that hash.
C21_WorkflowInOrder ==
    probe.stage = "relay" =>
        LET s == probe.steps
        IN  /\ Len(s) <= Len(WorkflowSteps)
            /\ \A k \in 1..Len(s) : s[k].step = WorkflowSteps[k]
            /\ \A k \in 1..(Len(s) - 1) : s[k].ok
            /\ probe.recorded
                  => /\ Len(s) = Len(WorkflowSteps)
                     /\ \A k \in 1..Len(s) : s[k].ok
                     /\ probe.nft_bridges # <<>>
                     /\ probe.nft_bridges[Len(probe.nft_bridges)].tx_hash
                            = probe.txHash
            /\ (\E k \in 1..Len(s) : ~s[k].ok) => ~probe.recorded
            /\ probe.pc = "done" => probe.txHash \in TxHashes

C21_Witness ==
    /\ probe.stage = "relay" /\ probe.pc = "done" /\ probe.recorded
    /\ probe.runs = 2 /\ Len(probe.nft_bridges) = 1

\* C22: every POST /api/rewards/deposit request gets exactly one HTTP
\* response, 200 with a deposit_id or 400/500 with an error, also when an
\* insert into errors, fraud_logs or telemetry_logs fails.
C22_ExactlyOneResponse ==
    Handled =>
        /\ Cardinality({k \in 1..Len(probe.did) :
                            probe.did[k].op = "respond"}) = 1
        /\ Responded
        /\ Response.status \in {200, 400, 500}
        /\ (Response.status = 200) = (Response.error = "none")

\* the PLY, CARB and EWASTE quantities of a deposit
Quantities(d) ==
    LET multiplier == tier_multiplier(Compliance(d))
        esg_mult == esg_multiplier(d)
    IN  <<token_quantity(d.amount, 10, multiplier, d.ply_multiplier,
                         esg_mult),
          token_quantity(d.amount, 5, multiplier, d.carb_multiplier,
                         esg_mult),
          token_quantity(d.amount, 2, multiplier, d.ewaste_multiplier,
                         esg_mult)>>

\* what account a receives when, for every index i of batch b, the three
\* quantities of deposit i go to the handles in slots 3i, 3i+1 and 3i+2 of
\* l (slots counted from 0, sequences from 1)
RECURSIVE SlotwiseMinted(_, _, _)
SlotwiseMinted(a, b, l) ==
    IF b = <<>> THEN 0
    ELSE LET n == Len(b)
             i == n - 1
             q == Quantities(b[n])
         IN  SlotwiseMinted(a, SubSeq(b, 1, n - 1), l)
               + (IF l[3 * i + 1] = a THEN q[1] ELSE 0)
               + (IF l[3 * i + 2] = a THEN q[2] ELSE 0)
               + (IF l[3 * i + 3] = a THEN q[3] ELSE 0)

\* C23: in a successful batch of n deposits supplied with 3n destination
\* handles, the PLY, CARB and EWASTE quantities of the deposit at index i
\* are minted to remaining-account slots 3i, 3i+1 and 3i+2 and nowhere
\* else: every token account gains exactly what those slots assign to it.
C23_SlotsOfIndex ==
    [][(IsBatchCall(ret') /\ ret'.res = "Ok")
          => \A b \in Batches : \A l \in RunAccountLists(b) :
                (Len(l) = 3 * Len(b)
                    /\ processed' = processed + SumAmounts(b)
                    /\ MintBatchRewards(b, l))
                  => \A a \in TokenAccounts :
                        balances'[a]
                            = balances[a] + SlotwiseMinted(a, b, l)]_vars

C23_Witness ==
    /\ IsBatchCall(ret) /\ ret.res = "Ok"
    /\ balances["u1_ply"] > 0 /\ balances["u1_carb"] > 0
    /\ balances["u2_ply"] > 0 /\ balances["u2_carb"] > 0

\* the index (from 1) of the first invalid deposit of b
FirstInvalid(b) == CHOOSE k \in InvalidAt(b) : \A j \in InvalidAt(b) : k <= j

\* the error of an invalid deposit: InvalidAmount when the amount is out
\* of range, InvalidTelemetry otherwise
ErrorOf(d) == IF ~AmountIn(d) THEN "InvalidAmount" ELSE "InvalidTelemetry"

\* the deposits of b before index k (from 1)
Before(b, k) == SubSeq(b, 1, k - 1)

\* the approval gate is open
GateOpen == vault.exists /\ vault.admin_approvals >= 2

NftCall(id, acc) == MintEsgNft(id, DepositOf[id].esg_metrics, acc)

\* carbon_offset = 0 or recyclability > 10000
BadEsgMetrics(m) == m.carbon_offset = 0 \/ m.recyclability > 10000

\* the call failed with InvalidEsgMetrics and left no NFT and no event
NftRefused ==
    /\ ret'.res = "InvalidEsgMetrics"
    /\ balances' = balances /\ events' = events

\* the call minted one unit into acc and emitted one EsgNftMinted event
\* with the deposit_id and the two metrics it was given
NftMinted(id, acc) ==
    /\ ret'.res = "Ok"
    /\ balances' = [balances EXCEPT ![acc] = @ + 1]
    /\ events' = Append(events,
                        [deposit_id |-> id,
                         carbon_offset |->
                             DepositOf[id].esg_metrics.carbon_offset,
                         recyclability |->
                             DepositOf[id].esg_metrics.recyclability])

C26_VaultFrame ==
    [][vault.exists
          => /\ vault'.exists
             /\ vault'.authority = vault.authority
             /\ vault'.bump = vault.bump
             /\ ret'.op = "approve_mint" => vault'.amount = vault.amount
             /\ ret'.op = "mint_esg_nft" => vault' = vault
             /\ ret'.op = "initialize" => vault' = vault]_vars

C26_Witness ==
    /\ vault.exists /\ nmints = 1 /\ Len(events) = 1
    /\ ret.op = "approve_mint" /\ ret.res = "Ok"
    /\ vault.admin_approvals = 1 /\ vault.authority = "admin"
    /\ vault.bump = VAULT_BUMP /\ vault.amount # reward0

\* the admin identities the vault knows: its authority
AuthorizedAdmins == {vault.authority}

\* C27: an approve_mint call signed by an identity that is not an
\* authorized admin of the vault leaves admin_approvals unchanged.
C27_OnlyAdminsApprove ==
    [][\A a \in Signers :
          (vault.exists /\ a \notin AuthorizedAdmins /\ ApproveMint(a))
            => vault'.admin_approvals = vault.admin_approvals]_vars

\* C28: one quorum authorizes exactly one batch.  A batch mint succeeds
\* only from 2 or more approvals and leaves none; the counter rises only
\* by a successful approve_mint, one at a time; so at least 2 successful
\* approve_mint calls lie between two successful batch mints, and a batch
\* submitted after a successful one without new approvals (or with a
\* single one) fails with InsufficientApprovals.
C28_OneQuorumOneBatch ==
    [][/\ (IsBatchCall(ret') /\ ret'.res = "Ok")
            => (vault.admin_approvals >= 2 /\ vault'.admin_approvals = 0)
       /\ (vault.exists /\ vault'.admin_approvals > vault.admin_approvals)
            => /\ ret'.op = "approve_mint" /\ ret'.res = "Ok"
               /\ vault'.admin_approvals = vault.admin_approvals + 1
       /\ (IsBatchCall(ret') /\ vault.exists /\ vault.admin_approvals < 2)
            => ret'.res = "InsufficientApprovals"
       /\ (IsBatchCall(ret) /\ ret.res = "Ok" /\ IsBatchCall(ret'))
            => ret'.res = "InsufficientApprovals"]_vars

C28_Witness ==
    /\ IsBatchCall(ret) /\ ret.res = "Ok" /\ nmints = 2
    /\ vault.admin_approvals = 0 /\ processed = 3

\* C29: the validator with bitwise flags and the require! checks at the
\* head of the mint_batch_rewards loop return the same outcome for every
\* deposit, also when the amount and another field are out of bounds.
C29_ValidatorsAgree ==
    Probed => probe.flagged = probe.verdict

\* the mint endpoint accepted the telemetry of the request
Accepted ==
    \E k \in 1..Len(probe.did) :
        probe.did[k].op = "post" /\ probe.did[k].accepted

\* C30: a request answered with an error (400 or 500) was not accepted by
\* the mint endpoint; every telemetry the mint endpoint accepted is
\* answered 200 with its deposit_id, also when the telemetry_logs insert
\* fails.
C30_AcceptedIsAnswered ==
    Handled =>
        /\ Accepted => (Responded /\ Response.status = 200)
        /\ (Responded /\ Response.status \in {400, 500}) => ~Accepted

====
